---- MODULE Spec2Model ----
(***************************************************************************)
(* Model of src/lib/components/DynamicBackgroundWebGL.svelte: the          *)
(* track-change handler (playerStore.subscribe callback, updateFromTrack), *)
(* the WebGL initialisation and the requestAnimationFrame loop; and of     *)
(* the page-load handler of src/routes/+page.server.ts.                    *)
(*                                                                         *)
(* Strings of the program (URLs, cover identifiers) are sequences of       *)
(* one-character strings, so that startsWith and the URL construction are  *)
(* computed.  An optional value is <<>> (absent / undefined / null) or     *)
(* <<v>> (present).  Real numbers in [0,1] are thousandths.                *)
(***************************************************************************)
EXTENDS Integers, Sequences, FiniteSets, TLC

VARIABLES
    phase,                          \* "created" | "mounted" | "destroyed" (component life cycle)
    canvasElement,                  \* "undefined" | "canvas"     (bind:this target)
    gl,                             \* "null" | "webgl"
    paletteTextureData,             \* bytes last uploaded to paletteTexture (<<>>: never uploaded)
    previousPalette,
    targetPalette,
    songPaletteTransitionProgress,
    animationFrameId,               \* NoFrame (null) or the handle of the last requested frame
    currentTrackId,                 \* NoTrackId (null) or a track id
    style,                          \* the three custom properties of document.documentElement
    pendingFrames,                  \* browser: handles of requested, not yet run or cancelled frames
    nextFrameId,                    \* browser: the handle the next requestAnimationFrame returns
    inflight,                       \* pending extractPaletteFromImage promises, in call order
    calls,                          \* number of extractPaletteFromImage invocations
    errors,                         \* number of console.error calls
    updates,                        \* number of extractions that resolved
    lastFailedId,                   \* track id of the last extraction that rejected
    lastNotification,               \* observation of the last run of the subscribe callback
    lastUpdate,                     \* observation of the last completed palette change
    lateErrors,                     \* number of errors caught after the await of updateFromTrack
    env,                            \* +page.server.ts: the private environment (TITLE, SLOGAN)
    pageData                        \* +page.server.ts: None, or the value load returned

vars == <<phase, canvasElement, gl, paletteTextureData, previousPalette, targetPalette,
          songPaletteTransitionProgress, animationFrameId, currentTrackId, style,
          pendingFrames, nextFrameId, inflight, calls, errors, updates,
          lastFailedId, lastNotification, lastUpdate, lateErrors, env, pageData>>

componentVars == <<phase, canvasElement, gl, paletteTextureData, previousPalette, targetPalette,
                   songPaletteTransitionProgress, animationFrameId, currentTrackId, style,
                   pendingFrames, nextFrameId, inflight, calls, errors, updates,
                   lastFailedId, lastNotification, lastUpdate, lateErrors>>

serverVars == <<env, pageData>>

frameVars == <<animationFrameId, pendingFrames, nextFrameId>>

(***************************************************************************)
(* Bounds                                                                  *)
(***************************************************************************)
MaxCalls == 2        \* extractor invocations explored
MaxFrameIds == 2     \* requestAnimationFrame handles before the handle counter wraps

(***************************************************************************)
(* Program constants                                                       *)
(***************************************************************************)
MASTER_PALETTE_SIZE == 40
DISPLAY_GRID_WIDTH == 8
DISPLAY_GRID_HEIGHT == 5
STRETCHED_GRID_WIDTH == 32
STRETCHED_GRID_HEIGHT == 18
ProgressDone == 1000                \* 1.0
ProgressStart == 0                  \* 0.0
NoFrame == 0                        \* animationFrameId = null
NoTrackId == 0                      \* currentTrackId = null

None == <<>>
Some(v) == <<v>>

(***************************************************************************)
(* Strings                                                                 *)
(***************************************************************************)
Str_http == <<"h", "t", "t", "p">>
Size640 == <<"6", "4", "0">>

StartsWith(s, prefix) ==
    /\ Len(s) >= Len(prefix)
    /\ SubSeq(s, 1, Len(prefix)) = prefix

Alphabet == <<"a", "b", "c", "d", "h", "p", "s", "t", "x", ":", "/", ".", "-", "0", "4", "6">>

CharCode(c) == CHOOSE i \in 1..Len(Alphabet) : Alphabet[i] = c

RECURSIVE StrSeed(_)
StrSeed(s) == IF s = <<>> THEN 7 ELSE (31 * StrSeed(Tail(s)) + CharCode(Head(s))) % 251

(***************************************************************************)
(* Player states published by playerStore                                   *)
(***************************************************************************)
Url_httpA == <<"h", "t", "t", "p", ":", "/", "/", "a">>
Url_dataX == <<"d", "a", "t", "a", ":", "x">>
Id_abc == <<"a", "b", "c">>
Id_bcd == <<"b", "c", "d">>

Tracks ==
    { [id |-> 1, thumbnailUrl |-> Some(Url_dataX), album |-> Some([cover |-> Some(Id_abc)])],
      [id |-> 2, thumbnailUrl |-> None,            album |-> Some([cover |-> Some(Id_bcd)])],
      [id |-> 3, thumbnailUrl |-> Some(<<>>),      album |-> Some([cover |-> Some(Url_httpA)])],
      [id |-> 4, thumbnailUrl |-> None,            album |-> Some([cover |-> None])] }

PlayerStates == { [currentTrack |-> None] } \cup { [currentTrack |-> Some(t)] : t \in Tracks }

(***************************************************************************)
(* External collaborators                                                  *)
(***************************************************************************)
\* losslessAPI.getCoverUrl(coverId, size): an absolute URL built from the identifier and the size
getCoverUrl(coverId, size) ==
    <<"h", "t", "t", "p", "s", ":", "/", "/", "c", "/">> \o coverId \o <<"/">> \o size

\* the image behind a URL, as the number its pixels are derived from
ImageSeed(url) == StrSeed(url)

\* extractPaletteFromImage, when it resolves: the display grid of colors of the image at url
extractPaletteFromImage(url, gridW, gridH, stretchedW, stretchedH) ==
    LET seed == ImageSeed(url)
    IN [i \in 1..(gridW * gridH) |->
           [r |-> (seed + 3 * i) % 256,
            g |-> (2 * seed + 5 * i) % 256,
            b |-> (3 * seed + i * i) % 256]]

Max3(a, b, c) == IF a >= b /\ a >= c THEN a ELSE IF b >= c THEN b ELSE c
Min3(a, b, c) == IF a <= b /\ a <= c THEN a ELSE IF b <= c THEN b ELSE c
Chroma(c) == Max3(c.r, c.g, c.b) - Min3(c.r, c.g, c.b)

\* getMostVibrantColor: the first element of the palette with the largest chroma
getMostVibrantColor(palette) ==
    LET chroma == [i \in 1..Len(palette) |-> Chroma(palette[i])]
        best == CHOOSE i \in 1..Len(palette) :
                    /\ \A j \in 1..Len(palette) : chroma[j] <= chroma[i]
                    /\ \A j \in 1..(i - 1) : chroma[j] < chroma[i]
    IN palette[best]

(***************************************************************************)
(* Style values                                                            *)
(***************************************************************************)
Unset == [fn |-> "", r |-> 0, g |-> 0, b |-> 0, a |-> ""]
Rgb(c) == [fn |-> "rgb", r |-> c.r, g |-> c.g, b |-> c.b, a |-> ""]
Rgba(c, alpha) == [fn |-> "rgba", r |-> c.r, g |-> c.g, b |-> c.b, a |-> alpha]

(***************************************************************************)
(* playerStore.subscribe callback: cover URL resolution                     *)
(***************************************************************************)
Truthy(opt) == opt # None /\ opt[1] # <<>>

\* variant: the album cover is preferred to the thumbnail
ResolveCoverUrl_albumFirst(track) ==
    IF track.album # None /\ Truthy(track.album[1].cover) THEN track.album[1].cover[1]
    ELSE IF Truthy(track.thumbnailUrl) THEN track.thumbnailUrl[1]
    ELSE <<>>

ResolveCoverUrl(track) ==
    IF Truthy(track.thumbnailUrl) THEN track.thumbnailUrl[1]
    ELSE IF track.album # None /\ Truthy(track.album[1].cover) THEN track.album[1].cover[1]
    ELSE <<>>

\* updateFromTrack up to its await: the URL handed to extractPaletteFromImage
FullCoverUrl(coverUrl) ==
    IF StartsWith(coverUrl, Str_http) THEN coverUrl ELSE getCoverUrl(coverUrl, Size640)

\* variant: the identity of the track is not compared with currentTrackId
PassesGuard_noIdCheck(state) == state.currentTrack # None

PassesGuard(state) ==
    /\ state.currentTrack # None
    /\ state.currentTrack[1].id # currentTrackId

InvokesExtractor(state) ==
    /\ PassesGuard(state)
    /\ ResolveCoverUrl(state.currentTrack[1]) # <<>>

\* variant: currentTrackId is assigned only when the track has a cover URL
playerCallback_idOnlyWithCover(state) ==
    /\ IF PassesGuard(state)
       THEN LET track == state.currentTrack[1]
                coverUrl == ResolveCoverUrl(track)
            IN IF coverUrl # <<>>
               THEN /\ currentTrackId' = track.id
                    /\ calls' = calls + 1
                    /\ inflight' = Append(inflight,
                           [id |-> track.id,
                            coverUrl |-> coverUrl,
                            url |-> FullCoverUrl(coverUrl),
                            trackedBefore |-> currentTrackId,
                            targetAtArrival |-> targetPalette])
               ELSE UNCHANGED <<currentTrackId, calls, inflight>>
       ELSE UNCHANGED <<currentTrackId, calls, inflight>>
    /\ lastNotification' =
           [state |-> state,
            trackedBefore |-> currentTrackId,
            errorsBefore |-> errors,
            resolved |-> PassesGuard(state),
            coverUrl |-> IF PassesGuard(state)
                         THEN ResolveCoverUrl(state.currentTrack[1]) ELSE <<>>,
            invoked |-> calls' # calls]

\* the callback, run synchronously up to the await inside updateFromTrack
playerCallback(state) ==
    /\ IF PassesGuard(state)
       THEN LET track == state.currentTrack[1]
                coverUrl == ResolveCoverUrl(track)
            IN /\ currentTrackId' = track.id
               /\ IF coverUrl # <<>>
                  THEN /\ calls' = calls + 1
                       /\ inflight' = Append(inflight,
                              [id |-> track.id,
                               coverUrl |-> coverUrl,
                               url |-> FullCoverUrl(coverUrl),
                               trackedBefore |-> currentTrackId,
                               targetAtArrival |-> targetPalette])
                  ELSE UNCHANGED <<calls, inflight>>
       ELSE UNCHANGED <<currentTrackId, calls, inflight>>
    /\ lastNotification' =
           [state |-> state,
            trackedBefore |-> currentTrackId,
            errorsBefore |-> errors,
            resolved |-> PassesGuard(state),
            coverUrl |-> IF PassesGuard(state)
                         THEN ResolveCoverUrl(state.currentTrack[1]) ELSE <<>>,
            invoked |-> calls' # calls]

(***************************************************************************)
(* Animation loop                                                          *)
(***************************************************************************)
NextHandle(h) == (h % MaxFrameIds) + 1

\* requestAnimationFrame(animate), its result stored in animationFrameId
requestAnimationFrame ==
    /\ animationFrameId' = nextFrameId
    /\ pendingFrames' = pendingFrames \cup {nextFrameId}
    /\ nextFrameId' = NextHandle(nextFrameId)

startAnimation ==
    IF animationFrameId = NoFrame THEN requestAnimationFrame ELSE UNCHANGED frameVars

\* variant: the frame callback requests two frames
animate_requestsTwice(h) ==
    /\ h \in pendingFrames
    /\ animationFrameId' = NextHandle(nextFrameId)
    /\ pendingFrames' = (pendingFrames \ {h}) \cup {nextFrameId, NextHandle(nextFrameId)}
    /\ nextFrameId' = NextHandle(NextHandle(nextFrameId))

\* the browser runs the pending frame callback h
animate(h) ==
    /\ h \in pendingFrames
    /\ animationFrameId' = nextFrameId
    /\ pendingFrames' = (pendingFrames \ {h}) \cup {nextFrameId}
    /\ nextFrameId' = NextHandle(nextFrameId)

\* variant: the null check of the context is missing
initializeWebGL_noContextCheck(context) ==
    IF canvasElement = "undefined"
    THEN UNCHANGED <<gl, animationFrameId, pendingFrames, nextFrameId>>
    ELSE /\ gl' = context
         /\ startAnimation

initializeWebGL(context) ==
    IF canvasElement = "undefined"
    THEN UNCHANGED <<gl, animationFrameId, pendingFrames, nextFrameId>>
    ELSE /\ gl' = context
         /\ IF context = "null" THEN UNCHANGED frameVars ELSE startAnimation

(***************************************************************************)
(* updatePaletteTexture: the bytes uploaded for the two palettes            *)
(***************************************************************************)
TextureBytes(prev, target) ==
    [k \in 1..(DISPLAY_GRID_WIDTH * DISPLAY_GRID_HEIGHT * 2) |->
        IF k > MASTER_PALETTE_SIZE /\ k - MASTER_PALETTE_SIZE <= Len(target)
            THEN <<target[k - MASTER_PALETTE_SIZE].r, target[k - MASTER_PALETTE_SIZE].g,
                   target[k - MASTER_PALETTE_SIZE].b, 255>>
        ELSE IF k <= Len(prev)
            THEN <<prev[k].r, prev[k].g, prev[k].b, 255>>
        ELSE <<0, 0, 0, 0>>]

updatePaletteTexture(prev, target) ==
    IF gl = "null" THEN paletteTextureData ELSE TextureBytes(prev, target)

(***************************************************************************)
(* updateFromTrack after its await                                          *)
(***************************************************************************)
\* the URLs the handler can hand to the extractor, and what the extractor and
\* getMostVibrantColor return for each
ExtractorUrls ==
    { FullCoverUrl(ResolveCoverUrl(t)) : t \in { u \in Tracks : ResolveCoverUrl(u) # <<>> } }

Extracted ==
    [u \in ExtractorUrls |->
        extractPaletteFromImage(u, DISPLAY_GRID_WIDTH, DISPLAY_GRID_HEIGHT,
                                STRETCHED_GRID_WIDTH, STRETCHED_GRID_HEIGHT)]

Vibrant == [u \in ExtractorUrls |-> getMostVibrantColor(Extracted[u])]

RemoveAt(s, i) == SubSeq(s, 1, i - 1) \o SubSeq(s, i + 1, Len(s))

\* variant: previousPalette always becomes the new palette
updateFromTrackResolved_prevIsNew(i) ==
    LET e == inflight[i]
        palette == Extracted[e.url]
        vibrant == Vibrant[e.url]
    IN /\ previousPalette' = palette
       /\ targetPalette' = palette
       /\ paletteTextureData' = updatePaletteTexture(palette, palette)
       /\ songPaletteTransitionProgress' = ProgressStart
       /\ style' = [accent |-> Rgb(vibrant),
                    glow |-> Rgba(vibrant, "0.45"),
                    vibrant |-> Rgb(vibrant)]
       /\ inflight' = RemoveAt(inflight, i)
       /\ updates' = updates + 1
       /\ lastUpdate' = [id |-> e.id, url |-> e.url,
                         trackedBefore |-> e.trackedBefore,
                         targetAtArrival |-> e.targetAtArrival,
                         targetBefore |-> targetPalette,
                         errorsBefore |-> errors]
       /\ UNCHANGED <<errors, lastFailedId>>

\* variant: the result of an extraction is dropped when its track is no longer the tracked one
updateFromTrackResolved_dropsStale(i) ==
    LET e == inflight[i]
        palette == Extracted[e.url]
        prev == IF Len(targetPalette) # 0 THEN targetPalette ELSE palette
        vibrant == Vibrant[e.url]
    IN /\ IF e.id = currentTrackId
          THEN /\ previousPalette' = prev
               /\ targetPalette' = palette
               /\ paletteTextureData' = updatePaletteTexture(prev, palette)
               /\ songPaletteTransitionProgress' = ProgressStart
               /\ style' = [accent |-> Rgb(vibrant),
                            glow |-> Rgba(vibrant, "0.45"),
                            vibrant |-> Rgb(vibrant)]
          ELSE UNCHANGED <<previousPalette, targetPalette, paletteTextureData,
                           songPaletteTransitionProgress, style>>
       /\ inflight' = RemoveAt(inflight, i)
       /\ updates' = updates + 1
       /\ lastUpdate' = [id |-> e.id, url |-> e.url,
                         trackedBefore |-> e.trackedBefore,
                         targetAtArrival |-> e.targetAtArrival,
                         targetBefore |-> targetPalette,
                         errorsBefore |-> errors]
       /\ UNCHANGED <<errors, lastFailedId>>

\* variant: previousPalette becomes the old targetPalette also when that is empty
updateFromTrackResolved_prevIsOldTarget(i) ==
    LET e == inflight[i]
        palette == Extracted[e.url]
        vibrant == Vibrant[e.url]
    IN /\ previousPalette' = targetPalette
       /\ targetPalette' = palette
       /\ paletteTextureData' = updatePaletteTexture(targetPalette, palette)
       /\ songPaletteTransitionProgress' = ProgressStart
       /\ style' = [accent |-> Rgb(vibrant),
                    glow |-> Rgba(vibrant, "0.45"),
                    vibrant |-> Rgb(vibrant)]
       /\ inflight' = RemoveAt(inflight, i)
       /\ updates' = updates + 1
       /\ lastUpdate' = [id |-> e.id, url |-> e.url,
                         trackedBefore |-> e.trackedBefore,
                         targetAtArrival |-> e.targetAtArrival,
                         targetBefore |-> targetPalette,
                         errorsBefore |-> errors]
       /\ UNCHANGED <<errors, lastFailedId>>

\* variant: --bloom-glow is written from the first color of the palette
updateFromTrackResolved_glowFromFirst(i) ==
    LET e == inflight[i]
        palette == Extracted[e.url]
        prev == IF Len(targetPalette) # 0 THEN targetPalette ELSE palette
        vibrant == Vibrant[e.url]
    IN /\ previousPalette' = prev
       /\ targetPalette' = palette
       /\ paletteTextureData' = updatePaletteTexture(prev, palette)
       /\ songPaletteTransitionProgress' = ProgressStart
       /\ style' = [accent |-> Rgb(vibrant),
                    glow |-> Rgba(palette[1], "0.45"),
                    vibrant |-> Rgb(vibrant)]
       /\ inflight' = RemoveAt(inflight, i)
       /\ updates' = updates + 1
       /\ lastUpdate' = [id |-> e.id, url |-> e.url,
                         trackedBefore |-> e.trackedBefore,
                         targetAtArrival |-> e.targetAtArrival,
                         targetBefore |-> targetPalette,
                         errorsBefore |-> errors]
       /\ UNCHANGED <<errors, lastFailedId>>

\* variant: the transition is not restarted
updateFromTrackResolved_keepsProgress(i) ==
    LET e == inflight[i]
        palette == Extracted[e.url]
        prev == IF Len(targetPalette) # 0 THEN targetPalette ELSE palette
        vibrant == Vibrant[e.url]
    IN /\ previousPalette' = prev
       /\ targetPalette' = palette
       /\ paletteTextureData' = updatePaletteTexture(prev, palette)
       /\ UNCHANGED songPaletteTransitionProgress
       /\ style' = [accent |-> Rgb(vibrant),
                    glow |-> Rgba(vibrant, "0.45"),
                    vibrant |-> Rgb(vibrant)]
       /\ inflight' = RemoveAt(inflight, i)
       /\ updates' = updates + 1
       /\ lastUpdate' = [id |-> e.id, url |-> e.url,
                         trackedBefore |-> e.trackedBefore,
                         targetAtArrival |-> e.targetAtArrival,
                         targetBefore |-> targetPalette,
                         errorsBefore |-> errors]
       /\ UNCHANGED <<errors, lastFailedId>>

\* the extraction of inflight[i] resolved
updateFromTrackResolved(i) ==
    LET e == inflight[i]
        palette == Extracted[e.url]
        prev == IF Len(targetPalette) # 0 THEN targetPalette ELSE palette
        vibrant == Vibrant[e.url]
    IN /\ previousPalette' = prev
       /\ targetPalette' = palette
       /\ paletteTextureData' = updatePaletteTexture(prev, palette)
       /\ songPaletteTransitionProgress' = ProgressStart
       /\ style' = [accent |-> Rgb(vibrant),
                    glow |-> Rgba(vibrant, "0.45"),
                    vibrant |-> Rgb(vibrant)]
       /\ inflight' = RemoveAt(inflight, i)
       /\ updates' = updates + 1
       /\ lastUpdate' = [id |-> e.id, url |-> e.url,
                         trackedBefore |-> e.trackedBefore,
                         targetAtArrival |-> e.targetAtArrival,
                         targetBefore |-> targetPalette,
                         errorsBefore |-> errors]
       /\ UNCHANGED <<errors, lastFailedId>>

\* the extraction of inflight[i] resolved and getMostVibrantColor raised an error: the
\* assignments of lines 129-132 are done, the style writes are not, the catch block logs
updateFromTrackVibrantThrows(i) ==
    LET e == inflight[i]
        palette == Extracted[e.url]
        prev == IF Len(targetPalette) # 0 THEN targetPalette ELSE palette
    IN /\ previousPalette' = prev
       /\ targetPalette' = palette
       /\ paletteTextureData' = updatePaletteTexture(prev, palette)
       /\ songPaletteTransitionProgress' = ProgressStart
       /\ errors' = errors + 1
       /\ lateErrors' = lateErrors + 1
       /\ inflight' = RemoveAt(inflight, i)
       /\ UNCHANGED <<style, updates, lastUpdate, lastFailedId>>

\* variant: the catch block empties the palettes
updateFromTrackRejected_clearsPalettes(i) ==
    /\ errors' = errors + 1
    /\ inflight' = RemoveAt(inflight, i)
    /\ lastFailedId' = inflight[i].id
    /\ previousPalette' = <<>>
    /\ targetPalette' = <<>>
    /\ UNCHANGED <<paletteTextureData, songPaletteTransitionProgress, style, updates,
                   lastUpdate>>

\* variant: the catch block restarts the transition
updateFromTrackRejected_resetsProgress(i) ==
    /\ errors' = errors + 1
    /\ inflight' = RemoveAt(inflight, i)
    /\ lastFailedId' = inflight[i].id
    /\ songPaletteTransitionProgress' = ProgressStart
    /\ UNCHANGED <<previousPalette, targetPalette, paletteTextureData,
                   style, updates, lastUpdate>>

\* variant: the catch block removes the style variables
updateFromTrackRejected_clearsStyle(i) ==
    /\ errors' = errors + 1
    /\ inflight' = RemoveAt(inflight, i)
    /\ lastFailedId' = inflight[i].id
    /\ style' = [accent |-> Unset, glow |-> Unset, vibrant |-> Unset]
    /\ UNCHANGED <<previousPalette, targetPalette, paletteTextureData,
                   songPaletteTransitionProgress, updates, lastUpdate>>

\* the extraction of inflight[i] rejected: the catch block
updateFromTrackRejected(i) ==
    /\ errors' = errors + 1
    /\ inflight' = RemoveAt(inflight, i)
    /\ lastFailedId' = inflight[i].id
    /\ UNCHANGED <<previousPalette, targetPalette, paletteTextureData,
                   songPaletteTransitionProgress, style, updates, lastUpdate>>

(***************************************************************************)
(* onDestroy                                                               *)
(***************************************************************************)
\* variant: the pending frame is not cancelled
onDestroy_noCancel == UNCHANGED <<animationFrameId, pendingFrames, nextFrameId>>

onDestroy ==
    /\ pendingFrames' = IF animationFrameId # NoFrame
                        THEN pendingFrames \ {animationFrameId} ELSE pendingFrames
    /\ UNCHANGED <<animationFrameId, nextFrameId>>

(***************************************************************************)
(* src/routes/+page.server.ts                                              *)
(***************************************************************************)
DefaultTitle == "Navine Music"
DefaultSlogan == "The easiest way to stream CD-quality lossless FLACs."

\* the values an environment variable can have: undefined, or a string
EnvValues == {None, Some(""), Some("Navine Music"), Some("Radio"), Some("Hi-Fi"),
              Some("FLAC"), Some("Lossless")}

Envs == [TITLE : EnvValues, SLOGAN : EnvValues]

\* a || b: also the empty string gives way to the default
LogicalOr(opt, default) == IF opt # None /\ opt[1] # "" THEN opt[1] ELSE default

\* a ?? b
NullishCoalescing(opt, default) == IF opt # None THEN opt[1] ELSE default

\* variant: the defaults are chosen with || instead of ??
load_logicalOr ==
    [title |-> LogicalOr(env.TITLE, DefaultTitle),
     slogan |-> LogicalOr(env.SLOGAN, DefaultSlogan)]

load ==
    [title |-> NullishCoalescing(env.TITLE, DefaultTitle),
     slogan |-> NullishCoalescing(env.SLOGAN, DefaultSlogan)]

(***************************************************************************)
(* Specification                                                           *)
(***************************************************************************)
ComponentInit ==
    /\ phase = "created"
    /\ canvasElement \in {"undefined", "canvas"}   \* line 162 provides for an unbound canvas
    /\ gl = "null"
    /\ paletteTextureData = <<>>
    /\ previousPalette = <<>>
    /\ targetPalette = <<>>
    /\ songPaletteTransitionProgress = ProgressDone
    /\ animationFrameId = NoFrame
    /\ currentTrackId = NoTrackId
    /\ style = [accent |-> Unset, glow |-> Unset, vibrant |-> Unset]
    /\ pendingFrames = {}
    /\ nextFrameId = 1
    /\ inflight = <<>>
    /\ calls = 0
    /\ errors = 0
    /\ updates = 0
    /\ lastFailedId = NoTrackId
    /\ lastNotification = [state |-> [currentTrack |-> None], trackedBefore |-> NoTrackId,
                           errorsBefore |-> 0, resolved |-> FALSE, coverUrl |-> <<>>,
                           invoked |-> FALSE]
    /\ lastUpdate = [id |-> NoTrackId, url |-> <<>>, trackedBefore |-> NoTrackId,
                     targetAtArrival |-> <<>>, targetBefore |-> <<>>, errorsBefore |-> 0]
    /\ lateErrors = 0

Init ==
    /\ ComponentInit
    /\ env = [TITLE |-> None, SLOGAN |-> None]
    /\ pageData = None

\* onMount: initializeWebGL, then playerStore.subscribe, which runs the callback at once
\* with the store's current value
Mount ==
    /\ phase = "created"
    /\ phase' = "mounted"
    /\ \E context \in {"null", "webgl"} : initializeWebGL(context)
    /\ \E state \in PlayerStates : playerCallback(state)
    /\ UNCHANGED <<canvasElement, paletteTextureData, previousPalette, targetPalette,
                   songPaletteTransitionProgress, style, errors, updates, lastFailedId,
                   lastUpdate,
                   lateErrors, serverVars>>

\* playerStore publishes a value to the subscribed callback
Notify ==
    /\ phase = "mounted"
    /\ \E state \in PlayerStates :
          /\ InvokesExtractor(state) => calls < MaxCalls
          /\ playerCallback(state)
    /\ UNCHANGED <<phase, canvasElement, gl, paletteTextureData, previousPalette,
                   targetPalette, songPaletteTransitionProgress, style, frameVars,
                   errors, updates, lastFailedId, lastUpdate,
                   lateErrors, serverVars>>

Resolve ==
    /\ \E i \in 1..Len(inflight) : updateFromTrackResolved(i)
    /\ UNCHANGED <<phase, canvasElement, gl, frameVars, currentTrackId, calls,
                   lastNotification, lateErrors, serverVars>>

Reject ==
    /\ \E i \in 1..Len(inflight) : updateFromTrackRejected(i)
    /\ UNCHANGED <<phase, canvasElement, gl, frameVars, currentTrackId, calls,
                   lastNotification, lateErrors, serverVars>>

Frame ==
    /\ \E h \in pendingFrames : animate(h)
    /\ UNCHANGED <<phase, canvasElement, gl, paletteTextureData, previousPalette,
                   targetPalette, songPaletteTransitionProgress, style, currentTrackId,
                   inflight, calls, errors, updates, lastFailedId, lastNotification,
                   lastUpdate,
                   lateErrors, serverVars>>

\* component teardown: the onMount cleanup unsubscribes, onDestroy cancels the frame
Destroy ==
    /\ phase = "mounted"
    /\ phase' = "destroyed"
    /\ onDestroy
    /\ UNCHANGED <<canvasElement, gl, paletteTextureData, previousPalette, targetPalette,
                   songPaletteTransitionProgress, style, currentTrackId, inflight, calls,
                   errors, updates, lastFailedId, lastNotification, lastUpdate,
                   lateErrors, serverVars>>

Next == Mount \/ Notify \/ Resolve \/ Reject \/ Frame \/ Destroy

Spec == Init /\ [][Next]_vars

\* the browser keeps running requested frames
FairSpec == Spec /\ WF_vars(Frame)

(***************************************************************************)
(* The handler with a getMostVibrantColor that can raise an error          *)
(***************************************************************************)
ResolveThrows ==
    /\ \E i \in 1..Len(inflight) : updateFromTrackVibrantThrows(i)
    /\ UNCHANGED <<phase, canvasElement, gl, frameVars, currentTrackId, calls,
                   lastNotification, serverVars>>

\* the track-change handler alone: frames and teardown do not touch what it writes
ThrowNext == Mount \/ Notify \/ Resolve \/ Reject \/ ResolveThrows

ThrowSpec == Init /\ [][ThrowNext]_vars

(***************************************************************************)
(* The page-load handler, for every environment                            *)
(***************************************************************************)
LoadInit ==
    /\ ComponentInit
    /\ env \in Envs
    /\ pageData = None

\* a page request runs load
Load ==
    /\ pageData' = Some(load)
    /\ UNCHANGED <<componentVars, env>>

LoadNext == Load

LoadSpec == LoadInit /\ [][LoadNext]_vars

TypeOK ==
    /\ phase \in {"created", "mounted", "destroyed"}
    /\ songPaletteTransitionProgress \in 0..ProgressDone
    /\ calls \in 0..MaxCalls
    /\ errors \in 0..calls
    /\ updates \in 0..calls
    /\ Len(inflight) <= MaxCalls

(***************************************************************************)
(* Properties                                                              *)
(***************************************************************************)
AfterTrackChange == updates > 0 /\ lastUpdate.trackedBefore # NoTrackId

\* C1 (as stated): after the update of a track B that followed a track A, previousPalette
\* is the targetPalette of the moment B's notification arrived.
C1_PreviousIsTargetAtArrival ==
    AfterTrackChange => previousPalette = lastUpdate.targetAtArrival

\* C1 (amended): after the update of a track B that followed a track A, previousPalette
\* is the targetPalette of the moment B's extraction resolved, or B's own palette when
\* that targetPalette was empty.
C1_PreviousIsTargetAtUpdate ==
    AfterTrackChange =>
        previousPalette = IF lastUpdate.targetBefore # <<>>
                          THEN lastUpdate.targetBefore ELSE targetPalette

\* A's extraction resolved between B's notification and B's update
C1_Witness ==
    /\ AfterTrackChange
    /\ lastUpdate.targetBefore # <<>>
    /\ lastUpdate.targetAtArrival # lastUpdate.targetBefore
    /\ previousPalette # targetPalette

\* C2: once a palette change has set the progress to 0, and while frames stay requested and
\* no other extraction is started, the progress eventually is 1.0.
C2_ProgressReachesOne ==
    (updates > 0 /\ songPaletteTransitionProgress = ProgressStart /\ pendingFrames # {})
        ~> (songPaletteTransitionProgress = ProgressDone \/ pendingFrames = {}
            \/ inflight # <<>>)

\* C3: the progress always lies in [0,1], and only a palette change decreases it.
C3_ProgressBoundedMonotone ==
    /\ [](songPaletteTransitionProgress >= ProgressStart
          /\ songPaletteTransitionProgress <= ProgressDone)
    /\ [][songPaletteTransitionProgress' < songPaletteTransitionProgress
             => updates' = updates + 1]_vars

\* an extraction rejected after a palette change, with frames running
C3_Witness ==
    /\ updates > 0
    /\ errors > lastUpdate.errorsBefore
    /\ animationFrameId # NoFrame
    /\ songPaletteTransitionProgress = ProgressStart

StyleOf(color) == [accent |-> Rgb(color), glow |-> Rgba(color, "0.45"), vibrant |-> Rgb(color)]

\* C5: an extraction leaves the pending ones only by resolving or rejecting, and
\* targetPalette and the style variables are those of the extraction that resolved last.
C5_LastCompletedWins ==
    /\ [](updates > 0 =>
            /\ targetPalette = Extracted[lastUpdate.url]
            /\ style = StyleOf(Vibrant[lastUpdate.url]))
    /\ [][Len(inflight') < Len(inflight) =>
            /\ Len(inflight') = Len(inflight) - 1
            /\ updates' = updates + 1 \/ errors' = errors + 1]_vars

\* two extractions were pending at once and the one notified first resolved last
C5_Witness ==
    /\ calls = 2 /\ updates = 2 /\ inflight = <<>>
    /\ lastNotification.invoked
    /\ lastNotification.state.currentTrack[1].id = currentTrackId
    /\ lastUpdate.id # currentTrackId
    /\ targetPalette = Extracted[lastUpdate.url]
    /\ targetPalette # Extracted[FullCoverUrl(lastNotification.coverUrl)]

\* C6: a run of the callback invokes the extractor only for a track whose identity differs
\* from currentTrackId.
C6_ExtractorOnlyForNewIdentity ==
    [][calls' # calls =>
          /\ lastNotification'.state.currentTrack # None
          /\ lastNotification'.state.currentTrack[1].id # currentTrackId]_vars

\* the tracked identity, whose only extraction rejected, was notified again: no second call
C6_Witness ==
    /\ lastNotification.state.currentTrack # None
    /\ lastNotification.state.currentTrack[1].id = lastNotification.trackedBefore
    /\ lastNotification.errorsBefore = 1
    /\ lastFailedId = currentTrackId
    /\ currentTrackId = lastNotification.trackedBefore
    /\ ~lastNotification.invoked
    /\ calls = 1 /\ inflight = <<>>

Present(opt) == opt # None
NonEmpty(opt) == Len(opt[1]) > 0

\* C7: the resolved cover URL is thumbnailUrl when that is present and non-empty, and
\* otherwise album.cover when that is present.
C7_CoverUrlResolution ==
    lastNotification.resolved =>
        LET track == lastNotification.state.currentTrack[1]
            useThumbnail == Present(track.thumbnailUrl) /\ NonEmpty(track.thumbnailUrl)
        IN /\ useThumbnail => lastNotification.coverUrl = track.thumbnailUrl[1]
           /\ (~useThumbnail /\ Present(track.album) /\ Present(track.album[1].cover))
                 => lastNotification.coverUrl = track.album[1].cover[1]

\* a track without thumbnailUrl and with an album cover was resolved
C7_Witness ==
    /\ lastNotification.resolved
    /\ ~Present(lastNotification.state.currentTrack[1].thumbnailUrl)
    /\ Present(lastNotification.state.currentTrack[1].album)
    /\ Present(lastNotification.state.currentTrack[1].album[1].cover)
    /\ lastNotification.coverUrl = lastNotification.state.currentTrack[1].album[1].cover[1]
    /\ lastNotification.invoked

IsAlpha(c) == c \in {"a", "b", "c", "d", "h", "p", "s", "t", "x"}

\* a URL with a scheme: letters, then a colon
HasScheme(url) ==
    \E k \in 2..Len(url) : url[k] = ":" /\ \A j \in 1..(k - 1) : IsAlpha(url[j])

\* C8: the extractor is called with an absolute cover URL unchanged, and with
\* getCoverUrl(coverUrl, "640") for a cover URL without scheme.
C8_ExtractorUrl ==
    \A k \in 1..Len(inflight) :
        IF HasScheme(inflight[k].coverUrl)
        THEN inflight[k].url = inflight[k].coverUrl
        ELSE inflight[k].url = getCoverUrl(inflight[k].coverUrl, Size640)

\* C9: when no context was acquired at initialization, no frame is requested, nothing is
\* uploaded and no context is acquired later.
C9_NoContextNoRendering ==
    /\ []((phase # "created" /\ gl = "null") =>
            /\ animationFrameId = NoFrame
            /\ pendingFrames = {}
            /\ paletteTextureData = <<>>)
    /\ [][(phase # "created" /\ gl = "null") => (gl' = "null" /\ UNCHANGED frameVars)]_vars

\* getContext returned null, and a palette change completed afterwards
C9_Witness ==
    /\ phase = "mounted" /\ canvasElement = "canvas" /\ gl = "null"
    /\ updates > 0
    /\ animationFrameId = NoFrame

\* C10: from the start of the loop to the teardown exactly the frame recorded in
\* animationFrameId is pending; after the teardown none is, and no frame runs.
C10_FramePendingUntilTeardown ==
    /\ []((animationFrameId # NoFrame /\ phase # "destroyed")
             => pendingFrames = {animationFrameId})
    /\ [](phase = "destroyed" => pendingFrames = {})
    /\ [][phase = "destroyed" => UNCHANGED frameVars]_vars

\* the loop ran at least one frame and was torn down
C10_Witness ==
    /\ phase = "destroyed"
    /\ animationFrameId # NoFrame
    /\ nextFrameId # NextHandle(1)
    /\ pendingFrames = {}

GridSize == DISPLAY_GRID_WIDTH * DISPLAY_GRID_HEIGHT

\* C11 (as stated): previousPalette and targetPalette always have the grid length,
\* DISPLAY_GRID_WIDTH x DISPLAY_GRID_HEIGHT = MASTER_PALETTE_SIZE entries.
C11_PaletteLength ==
    /\ GridSize = MASTER_PALETTE_SIZE
    /\ Len(previousPalette) = MASTER_PALETTE_SIZE
    /\ Len(targetPalette) = MASTER_PALETTE_SIZE

\* C11 (amended): both palettes are empty until the first extraction resolves, and both
\* have the grid length from then on.
C11_PaletteLengthOnceSet ==
    /\ GridSize = MASTER_PALETTE_SIZE
    /\ IF updates = 0
       THEN previousPalette = <<>> /\ targetPalette = <<>>
       ELSE Len(previousPalette) = MASTER_PALETTE_SIZE
            /\ Len(targetPalette) = MASTER_PALETTE_SIZE

\* two palette changes: the two palettes differ and both have the grid length
C11_Witness ==
    /\ updates > 1
    /\ previousPalette # targetPalette
    /\ Len(previousPalette) = GridSize
    /\ Len(targetPalette) = GridSize

SameColor(a, b) == a.r = b.r /\ a.g = b.g /\ a.b = b.b

\* C12: once an extraction has resolved, the three style variables carry one color, the
\* vibrant color of the palette in targetPalette: accent and vibrant as rgb(), glow as
\* rgba() with alpha 0.45.
C12_StyleFromOneVibrantColor ==
    updates > 0 =>
        /\ style.accent.fn = "rgb" /\ style.vibrant.fn = "rgb"
        /\ style.glow.fn = "rgba" /\ style.glow.a = "0.45"
        /\ SameColor(style.accent, style.glow)
        /\ SameColor(style.accent, style.vibrant)
        /\ \E u \in ExtractorUrls :
              targetPalette = Extracted[u] /\ SameColor(style.accent, Vibrant[u])

\* a second palette change replaced the style variables of the first
C12_Witness ==
    /\ updates > 1
    /\ lastUpdate.targetBefore # <<>>
    /\ lastUpdate.targetBefore # targetPalette
    /\ style.glow = Rgba(Vibrant[lastUpdate.url], "0.45")
    /\ \E u \in ExtractorUrls :
          lastUpdate.targetBefore = Extracted[u] /\ ~SameColor(style.accent, Vibrant[u])

\* C13: load returns exactly the fields title and slogan; each is the value of its
\* environment variable when that is defined, and its hardcoded default otherwise.
C13_LoadReturnsEnvOrDefault ==
    pageData # None =>
        /\ DOMAIN pageData[1] = {"title", "slogan"}
        /\ pageData[1].title =
              IF env.TITLE = None THEN "Navine Music" ELSE env.TITLE[1]
        /\ pageData[1].slogan =
              IF env.SLOGAN = None
              THEN "The easiest way to stream CD-quality lossless FLACs."
              ELSE env.SLOGAN[1]

\* load ran with TITLE undefined and SLOGAN defined as the empty string
C13_Witness ==
    /\ pageData # None
    /\ env.TITLE = None /\ env.SLOGAN = Some("")
    /\ pageData[1].title = DefaultTitle
    /\ pageData[1].slogan = ""

\* C14: the step in which an extraction resolves sets the progress to 0 and targetPalette
\* to the new palette; previousPalette becomes the new palette when there was no target
\* palette before, and the former targetPalette otherwise.
C14_UpdateSetsTransitionState ==
    [][updates' = updates + 1 =>
          /\ songPaletteTransitionProgress' = ProgressStart
          /\ targetPalette' = Extracted[lastUpdate'.url]
          /\ previousPalette' = IF targetPalette = <<>> THEN targetPalette' ELSE targetPalette
      ]_vars

\* the first palette change: both palettes are the new one and the progress is 0
C14_Witness ==
    /\ updates = 1
    /\ lastUpdate.targetBefore = <<>>
    /\ targetPalette = Extracted[lastUpdate.url]
    /\ previousPalette = targetPalette
    /\ songPaletteTransitionProgress = ProgressStart

\* the palettes, the progress and the style variables are all untouched, or all those of
\* one extraction
ConsistentUpdate ==
    \/ /\ previousPalette = <<>> /\ targetPalette = <<>>
       /\ songPaletteTransitionProgress = ProgressDone
       /\ style = [accent |-> Unset, glow |-> Unset, vibrant |-> Unset]
    \/ \E u \in ExtractorUrls :
          /\ targetPalette = Extracted[u]
          /\ previousPalette # <<>>
          /\ songPaletteTransitionProgress = ProgressStart
          /\ style = StyleOf(Vibrant[u])

\* C15 (as stated): whatever error is raised in the update sequence, the palettes, the
\* progress and the style variables are updated together or not at all.
C15_AllOrNothing == ConsistentUpdate

\* C15 (amended): a rejected extraction changes nothing and an update without error
\* changes everything together; an error raised after the assignments of lines 129-132
\* leaves the new palettes and the progress 0 with the style variables as they were.
C15_AllOrNothingUnlessLateError ==
    /\ [](lateErrors = 0 => ConsistentUpdate)
    /\ [][(errors' # errors /\ lateErrors' = lateErrors) =>
             UNCHANGED <<previousPalette, targetPalette, songPaletteTransitionProgress,
                         style>>]_vars
    /\ [][lateErrors' # lateErrors =>
             /\ style' = style
             /\ songPaletteTransitionProgress' = ProgressStart
             /\ \E u \in ExtractorUrls : targetPalette' = Extracted[u]]_vars

\* after a palette change, a later update raised an error after its assignments: the
\* palettes are those of the new track, the style variables those of the earlier one
C15_Witness ==
    /\ lateErrors > 0
    /\ updates > 0
    /\ style = StyleOf(Vibrant[lastUpdate.url])
    /\ targetPalette # Extracted[lastUpdate.url]
    /\ songPaletteTransitionProgress = ProgressStart

TrackById(id) == CHOOSE t \in Tracks : t.id = id

HasCover(t) ==
    \/ (Present(t.thumbnailUrl) /\ NonEmpty(t.thumbnailUrl))
    \/ (Present(t.album) /\ Present(t.album[1].cover) /\ NonEmpty(t.album[1].cover))

\* C16: when no extraction is pending and all have resolved, targetPalette and the style
\* variables are those of the extraction started for the track identified by
\* currentTrackId.
C16_TargetIsCurrentTrack ==
    (calls > 0 /\ inflight = <<>> /\ updates = calls /\ currentTrackId # NoTrackId
        /\ HasCover(TrackById(currentTrackId)))
    => /\ lastUpdate.id = currentTrackId
       /\ targetPalette = Extracted[lastUpdate.url]
       /\ style = StyleOf(Vibrant[lastUpdate.url])

\* C17: after the teardown neither palette, nor the progress, nor a style variable
\* changes.
C17_NoChangeAfterTeardown ==
    [][phase = "destroyed" =>
          UNCHANGED <<previousPalette, targetPalette, songPaletteTransitionProgress,
                      style>>]_vars

\* C18: at most one frame is pending, the one recorded in animationFrameId; a step adds
\* at most one pending frame, and none is added from outside a frame callback while
\* animationFrameId records one.
C18_AtMostOneFramePending ==
    /\ [](Cardinality(pendingFrames) <= 1 /\ pendingFrames \subseteq {animationFrameId})
    /\ [][/\ Cardinality(pendingFrames' \ pendingFrames) <= 1
          /\ (animationFrameId # NoFrame /\ pendingFrames' # pendingFrames /\ pendingFrames' # {})
                => (Cardinality(pendingFrames) = 1 /\ pendingFrames' = {animationFrameId'}
                    /\ animationFrameId' # animationFrameId)]_vars

\* frames have run in the mounted component and exactly one is pending
C18_Witness ==
    /\ phase = "mounted"
    /\ gl = "webgl"
    /\ nextFrameId # NextHandle(1)
    /\ Cardinality(pendingFrames) = 1
    /\ animationFrameId \in pendingFrames

\* the track of the notification has neither a thumbnail URL nor an album cover
WithoutCover(t) ==
    /\ ~(Present(t.thumbnailUrl) /\ NonEmpty(t.thumbnailUrl))
    /\ ~(Present(t.album) /\ Present(t.album[1].cover) /\ NonEmpty(t.album[1].cover))

\* C19: the notification of a new track without thumbnail URL and album cover sets
\* currentTrackId to it, invokes no extraction and leaves the palettes, the progress and
\* the style variables unchanged.
C19_TrackWithoutCover ==
    [][(/\ lastNotification'.state.currentTrack # None
        /\ lastNotification'.state.currentTrack[1].id # currentTrackId
        /\ WithoutCover(lastNotification'.state.currentTrack[1]))
       => /\ currentTrackId' = lastNotification'.state.currentTrack[1].id
          /\ calls' = calls /\ inflight' = inflight
          /\ UNCHANGED <<previousPalette, targetPalette, songPaletteTransitionProgress,
                         style>>]_vars

\* a track without cover became the tracked one after a palette change of another track
C19_Witness ==
    /\ updates > 0 /\ inflight = <<>>
    /\ lastNotification.state.currentTrack # None
    /\ WithoutCover(lastNotification.state.currentTrack[1])
    /\ currentTrackId = lastNotification.state.currentTrack[1].id
    /\ lastNotification.trackedBefore = lastUpdate.id
    /\ ~lastNotification.invoked
    /\ targetPalette = Extracted[lastUpdate.url]
    /\ style = StyleOf(Vibrant[lastUpdate.url])
====
